---- MODULE Spec2Model ----
(***************************************************************************)
(* Model of the map-unit diff/merge engine of BCML                         *)
(* (src/bcml/mergers/mubin.py).                                            *)
(*                                                                         *)
(* A document is the list map['Objs']; an object is a record               *)
(*   [HashId, Val, LinksToObj, UnitConfigName]                             *)
(* where Val stands for all the fields the engine does not look at and     *)
(* LinksToObj is the set of DestUnitHashId values of the object's links    *)
(* (the empty set when the object has no 'LinksToObj' key).                *)
(* A log key "section_type" is modelled by the pair of its '_'-separated   *)
(* parts, so that file.split('_') is the pair itself.                      *)
(***************************************************************************)
EXTENDS Integers, Sequences, FiniteSets, TLC

VARIABLES
    pc,        \* position of the main thread in the operation being run
    mods,      \* the logged map diffs of the installed mods, ascending priority
    c_diffs,   \* result of MapMerger.consolidate_diffs: Map -> consolidated diff
    base_map,  \* get_map_diff / merge_map: Objs of the baseline document
    mod_map,   \* get_map_diff: Objs of the modified document
    no_del,    \* option 'no_del'
    link_del,  \* option 'link_del'
    diffs,     \* result of get_map_diff
    new_map,   \* merge_map: new_map['Objs'] after the final sort
    not_deleted, \* merge_map: the HashIds printed as 'Could not delete actor'
    game,      \* get_stock_map: the sources of the game dump that hold the map file
    force_vanilla, \* get_stock_map: the argument force_vanilla of the call
    stock_src, \* get_stock_map: the source that supplied the baseline
    cpu_count, \* perform_merge: multiprocessing.cpu_count()
    aoc_pack,  \* master modpack: aoc/0010/Pack/AocMainField.pack
    files,     \* master modpack: the merged map files, path -> Objs written
    map_log,   \* master modpack: logs/map.log
    writes,    \* the paths written by the current perform_merge
    wpc,       \* pool: position of the merge_map task of each group
    wmap,      \* pool: new_map['Objs'] of the merge_map task of each group
    results,   \* pool: the dict returned by the merge_map task of each group
    installed, \* the mod directories that hold an info.json
    ds_base,   \* CDungeon Static.smubin of the game dump: its StartPos list
    ds_files,  \* the StartPos list of the Static.smubin of each mod, by priority
    ds_diffs,  \* get_dungeonstatic_diff of each mod installed so far
    ds_all,    \* DungeonStaticMerger.consolidate_diffs of the logged diffs
    ds_out     \* master modpack: the merged CDungeon Static.smubin

diffVars == <<base_map, mod_map, link_del, diffs, new_map, not_deleted>>
stockVars == <<game, force_vanilla, stock_src>>
runVars == <<cpu_count, aoc_pack, files, map_log, writes, wpc, wmap, results>>
modVars == <<installed>>
dsVars == <<ds_base, ds_files, ds_diffs, ds_all, ds_out>>
vars == <<pc, mods, c_diffs, no_del, diffVars, stockVars, runVars, modVars, dsVars>>

----------------------------------------------------------------------------
(* Bounds and value universes *)

MaxHash == 2        \* HashIds are 1..MaxHash
MaxMods == 2        \* at most MaxMods logged mods

HashIds == 1..MaxHash
Payloads == {"X", "Y"}
Sections == {"A-1"}
Types == {"Dynamic", "Static"}
Files == Sections \X Types

Obj(h, v) == [HashId |-> h, Val |-> v, LinksToObj |-> {}, UnitConfigName |-> "Obj"]
DlcObj(h, v) == [Obj(h, v) EXCEPT !.UnitConfigName = "DLC_Obj"]

EmptyDiff == [add |-> <<>>, mod |-> <<>>, del |-> <<>>]

Range(s) == {s[i] : i \in DOMAIN s}

\* [obj['HashId'] for obj in objs]
Hashes(objs) == [i \in DOMAIN objs |-> objs[i].HashId]

\* list.index(h), 1-based: position of the first occurrence (0: ValueError)
Index(hashes, h) ==
    IF \E i \in DOMAIN hashes : hashes[i] = h
    THEN CHOOSE i \in DOMAIN hashes : hashes[i] = h /\ \A j \in 1..(i - 1) : hashes[j] # h
    ELSE 0

----------------------------------------------------------------------------
(* get_map_diff, with the baseline given as a document *)

\* lines 153-158: DestUnitHashId of every link of every baseline object,
\* collected only when link_del is off
BaseLinks(base, linkDel) ==
    IF ~linkDel THEN UNION {base[i].LinksToObj : i \in DOMAIN base} ELSE {}

\* (mutant) every object of the modified document is an addition
DiffAddAll(base, modded) == modded

\* lines 160-162
DiffAdd(base, modded) ==
    SelectSeq(modded, LAMBDA obj : obj.HashId \notin Range(Hashes(base)))

\* (mutant) every object of a baseline HashId is recorded, changed or not
DiffModAll(base, modded) ==
    LET common(i) == modded[i].HashId \in Range(Hashes(base))
        keys == {modded[i].HashId : i \in {j \in DOMAIN modded : common(j)}}
    IN  [h \in keys |-> modded[CHOOSE i \in DOMAIN modded : modded[i].HashId = h]]

\* lines 163-165: the dict keeps the last differing object of each HashId
DiffMod(base, modded) ==
    LET differs(i) == /\ modded[i].HashId \in Range(Hashes(base))
                      /\ modded[i] # base[Index(Hashes(base), modded[i].HashId)]
        keys == {modded[i].HashId : i \in {j \in DOMAIN modded : differs(j)}}
        last(h) == CHOOSE i \in DOMAIN modded :
                      /\ differs(i) /\ modded[i].HashId = h
                      /\ \A j \in DOMAIN modded :
                            (differs(j) /\ modded[j].HashId = h) => j <= i
    IN  [h \in keys |-> modded[last(h)]]

\* (mutant) deletions that ignore the link protection
DiffDelUnprotected(base, modded, noDel, linkDel) ==
    SelectSeq(Hashes(base), LAMBDA h : h \notin Range(Hashes(modded)) /\ ~noDel)

\* (mutant) deletions that ignore no_del
DiffDelAlways(base, modded, noDel, linkDel) ==
    SelectSeq(Hashes(base),
              LAMBDA h : /\ h \notin Range(Hashes(modded))
                         /\ ~(~linkDel /\ h \in BaseLinks(base, linkDel)))

\* lines 166-167
DiffDel(base, modded, noDel, linkDel) ==
    SelectSeq(Hashes(base),
              LAMBDA h : /\ h \notin Range(Hashes(modded))
                         /\ ~noDel
                         /\ ~(~linkDel /\ h \in BaseLinks(base, linkDel)))

get_map_diff(base, modded, noDel, linkDel) ==
    [add |-> DiffAdd(base, modded),
     mod |-> DiffMod(base, modded),
     del |-> DiffDel(base, modded, noDel, linkDel)]

----------------------------------------------------------------------------
(* get_stock_map and get_map_diff with the baseline given as a Map key *)

\* what the game dump may hold of one map unit
Sources == {"aoc_dir", "aoc_pack", "aoc_pack_entry", "aoc_file",
            "update_file", "game_file", "title_pack", "title_entry"}
DlcSources == {"aoc_pack_entry", "aoc_file"}

\* the documents of the game dump: the vanilla map and the DLC map
VanillaStock == <<Obj(1, "X")>>
DlcStock == <<Obj(1, "X"), DlcObj(2, "X")>>
StockDoc(src) == IF src \in DlcSources THEN DlcStock ELSE VanillaStock

\* lines 50-60 and 81-91: the map file out of Pack/TitleBG.pack
TitleBG(dump) ==
    IF "title_pack" \in dump /\ "title_entry" \in dump THEN "title_entry" ELSE "NotFound"

\* (mutant) the base game directory tried before the update directory
GameOrUpdate(dump) ==
    IF "game_file" \in dump THEN "game_file"
    ELSE IF "update_file" \in dump THEN "update_file"
    ELSE TitleBG(dump)

\* lines 38-48 and util.get_game_file lines 537-540: update, then base game
UpdateOrGame(dump) ==
    IF "update_file" \in dump THEN "update_file"
    ELSE IF "game_file" \in dump THEN "game_file"
    ELSE TitleBG(dump)

\* lines 29-95: the source that supplies the baseline, "NotFound" when the
\* FileNotFoundError is raised
get_stock_map(dump, forceVanilla) ==
    IF forceVanilla \/ "aoc_dir" \notin dump THEN UpdateOrGame(dump)
    ELSE IF "aoc_pack" \in dump /\ "aoc_pack_entry" \in dump THEN "aoc_pack_entry"
    ELSE IF "aoc_file" \in dump THEN "aoc_file"
    ELSE UpdateOrGame(dump)

HardMarkers == {"IsHardModeActor", "AoC_HardMode_Enabled"}

\* line 148: a marker occurs in str(obj)
HasMarker(obj) == obj.Val \in HardMarkers \/ obj.UnitConfigName \in HardMarkers

\* (mutant) the vanilla baseline chosen when a marker is present
StockMapFlagInverted(modded) == \E i \in DOMAIN modded : HasMarker(modded[i])

\* lines 145-151: stock_map, passed as force_vanilla
StockMapFlag(modded) == ~(\E i \in DOMAIN modded : HasMarker(modded[i]))

----------------------------------------------------------------------------
(* merge_map: the object list, lines 190-214 *)

\* lines 192-196: a modification of a stock HashId replaces the object in place
ApplyMods(stock, modMap) ==
    [i \in DOMAIN stock |->
        IF stock[i].HashId \in DOMAIN modMap /\ Index(Hashes(stock), stock[i].HashId) = i
        THEN modMap[stock[i].HashId] ELSE stock[i]]

\* lines 195-196: a modification of a HashId the stock map lacks is appended to
\* changes['add'] (dict order; the final sort makes the order among them moot)
RECURSIVE MovedMods(_, _, _)
MovedMods(stock, modMap, keys) ==
    IF keys = {} THEN <<>>
    ELSE LET h == CHOOSE k \in keys : \A l \in keys : k <= l
         IN  <<modMap[h]>> \o MovedMods(stock, modMap, keys \ {h})

\* (mutant) the modifications of HashIds the stock map lacks are dropped
AddWithoutMovedMods(stock, changes) == changes.add

AddAfterMods(stock, changes) ==
    changes.add \o MovedMods(stock, changes.mod,
                             {h \in DOMAIN changes.mod : h \notin Range(Hashes(stock))})

RemoveAt(objs, i) == [j \in 1..(Len(objs) - 1) |-> IF j < i THEN objs[j] ELSE objs[j + 1]]

\* (mutant) the deletion pops the last object of the list
DeleteOneLast(objs, stockHashes, h) == RemoveAt(objs, Len(objs))

\* lines 201-210: pop by stock position; on IndexError remove the first object
\* with that HashId; when there is none the deletion is reported and skipped
DeleteOne(objs, stockHashes, h) ==
    LET i == Index(stockHashes, h)
    IN  IF i <= Len(objs) THEN RemoveAt(objs, i)
        ELSE IF Index(Hashes(objs), h) # 0 THEN RemoveAt(objs, Index(Hashes(objs), h))
        ELSE objs

\* lines 198-200: the deletions of stock HashIds, highest stock position first
RECURSIVE DeleteAll(_, _, _)
DeleteAll(objs, stockHashes, dels) ==
    IF dels = {} THEN objs
    ELSE LET h == CHOOSE d \in dels :
                     \A e \in dels : Index(stockHashes, d) >= Index(stockHashes, e)
         IN  DeleteAll(DeleteOne(objs, stockHashes, h), stockHashes, dels \ {h})

\* line 210: the deletion that neither pop nor the identity scan could do
CouldNotDelete(objs, stockHashes, h) ==
    Index(stockHashes, h) > Len(objs) /\ Index(Hashes(objs), h) = 0

\* lines 198-210: the HashIds printed by the deletion pass
RECURSIVE DeleteReports(_, _, _)
DeleteReports(objs, stockHashes, dels) ==
    IF dels = {} THEN {}
    ELSE LET h == CHOOSE d \in dels :
                     \A e \in dels : Index(stockHashes, d) >= Index(stockHashes, e)
         IN  (IF CouldNotDelete(objs, stockHashes, h) THEN {h} ELSE {})
             \cup DeleteReports(DeleteOne(objs, stockHashes, h), stockHashes, dels \ {h})

\* (mutant) a deletion of a HashId the stock map lacks is printed too
PassReportsAbsent(objs, stockHashes, dels, noDel) ==
    IF ~noDel
    THEN DeleteReports(objs, stockHashes, dels \cap Range(stockHashes))
         \cup (dels \ Range(stockHashes))
    ELSE {}

\* lines 197-210: nothing is printed for a HashId that is not in stock_hashes
PassReports(objs, stockHashes, dels, noDel) ==
    IF ~noDel THEN DeleteReports(objs, stockHashes, dels \cap Range(stockHashes)) ELSE {}

\* (mutant) the deletion pass guarded by `if no_del`
DeletePassInverted(objs, stockHashes, dels, noDel) ==
    IF noDel THEN DeleteAll(objs, stockHashes, dels \cap Range(stockHashes)) ELSE objs

\* lines 197-210
DeletePass(objs, stockHashes, dels, noDel) ==
    IF ~noDel THEN DeleteAll(objs, stockHashes, dels \cap Range(stockHashes)) ELSE objs

\* (mutant) every addition is appended, stock HashId or not
ExtendAllAdds(objs, stockHashes, adds) == objs \o adds

\* lines 211-213
ExtendAdds(objs, stockHashes, adds) ==
    objs \o SelectSeq(adds, LAMBDA a : a.HashId \notin Range(stockHashes))

\* line 214: list.sort(key=HashId), a stable sort
RECURSIVE SortByHashId(_)
SortByHashId(objs) ==
    IF objs = <<>> THEN <<>>
    ELSE LET n == Len(objs)
             rest == SortByHashId(SubSeq(objs, 1, n - 1))
             k == Cardinality({j \in DOMAIN rest : rest[j].HashId <= objs[n].HashId})
         IN  SubSeq(rest, 1, k) \o <<objs[n]>> \o SubSeq(rest, k + 1, Len(rest))

MergeObjs(stock, changes, noDel) ==
    LET stockHashes == Hashes(stock)
        modded == ApplyMods(stock, changes.mod)
        adds == AddAfterMods(stock, changes)
        deleted == DeletePass(modded, stockHashes, changes.del, noDel)
    IN  SortByHashId(ExtendAdds(deleted, stockHashes, adds))

\* what merge_map prints while deleting
MergeReports(stock, changes, noDel) ==
    PassReports(ApplyMods(stock, changes.mod), Hashes(stock), changes.del, noDel)

\* the values of the variables an operation does not use
NoDiff ==
    /\ base_map = <<>> /\ mod_map = <<>> /\ link_del = FALSE
    /\ diffs = EmptyDiff /\ new_map = <<>> /\ not_deleted = {}
NoStock ==
    /\ game = {} /\ force_vanilla = FALSE /\ stock_src = "none"
NoMods == installed = {}
NotWritten == [written |-> FALSE, StartPos |-> <<>>]
NoStatic ==
    /\ ds_base = <<>> /\ ds_files = <<>> /\ ds_diffs = <<>>
    /\ ds_all = <<>> /\ ds_out = NotWritten
NoRun ==
    /\ cpu_count = 1 /\ aoc_pack = "empty" /\ files = <<>>
    /\ map_log = [exists |-> FALSE, entries |-> <<>>]
    /\ writes = {} /\ wpc = <<>> /\ wmap = <<>> /\ results = <<>>

----------------------------------------------------------------------------
(* MapMerger.consolidate_diffs *)

\* the namedtuple built from file.split('_') (line 351)
Map(file) == <<file[1], file[2]>>

\* `a_map in diffs` (line 352): diffs is the list of the mods' logs, each a dict;
\* a Map namedtuple never compares equal to a dict, so the test is always False.
MapInDiffs(a_map, diff_list) == FALSE

\* one iteration of `for mod_diff in diffs` (lines 350-354)
GroupOne(diff_list, mod_diff, a_diffs) ==
    LET touched == {Map(f) : f \in DOMAIN mod_diff}
        fileOf(m) == CHOOSE f \in DOMAIN mod_diff : Map(f) = m
    IN  [m \in (DOMAIN a_diffs) \cup touched |->
            IF m \in touched
            THEN (IF ~MapInDiffs(m, diff_list) THEN <<>> ELSE a_diffs[m])
                 \o <<mod_diff[fileOf(m)]>>
            ELSE a_diffs[m]]

RECURSIVE GroupDiffs(_, _, _)
GroupDiffs(diff_list, i, a_diffs) ==
    IF i > Len(diff_list) THEN a_diffs
    ELSE GroupDiffs(diff_list, i + 1, GroupOne(diff_list, diff_list[i], a_diffs))

\* lines 360-361: list(set(hash ids of all 'del' lists)), kept as a set
ConsDel(ms) == UNION {Range(ms[i].del) : i \in DOMAIN ms}

\* lines 363-365: later mods overwrite earlier entries
RECURSIVE ConsMod(_, _, _)
ConsMod(ms, i, acc) ==
    IF i > Len(ms) THEN acc
    ELSE ConsMod(ms, i + 1, ms[i].mod @@ acc)

\* (mutant) the add loop without the add_hashes test
RECURSIVE AddFromNoDedup(_, _, _)
AddFromNoDedup(adds, j, acc) ==
    IF j > Len(adds) THEN acc
    ELSE AddFromNoDedup(adds, j + 1, Append(acc, adds[j]))

\* lines 368-371: one mod's 'add' list, skipping HashIds already in add_hashes
RECURSIVE AddFrom(_, _, _)
AddFrom(adds, j, acc) ==
    IF j > Len(adds) THEN acc
    ELSE AddFrom(adds, j + 1,
                 IF adds[j].HashId \notin {acc[k].HashId : k \in DOMAIN acc}
                 THEN Append(acc, adds[j]) ELSE acc)

\* lines 366-371: `for mod in reversed(mods)`
RECURSIVE ConsAdd(_, _, _)
ConsAdd(ms, i, acc) ==
    IF i < 1 THEN acc
    ELSE ConsAdd(ms, i - 1, AddFrom(ms[i].add, 1, acc))

ConsolidateFile(ms) ==
    [add |-> ConsAdd(ms, Len(ms), <<>>),
     mod |-> ConsMod(ms, 1, <<>>),
     del |-> ConsDel(ms)]

consolidate_diffs(diff_list) ==
    LET a_diffs == GroupDiffs(diff_list, 1, <<>>)
    IN  [m \in DOMAIN a_diffs |-> ConsolidateFile(a_diffs[m])]

----------------------------------------------------------------------------
(* Specification SpecCons: consolidate_diffs applied to the logs of up to  *)
(* MaxMods mods.  Each log holds the diff of one map file, and each diff   *)
(* holds at most one change or two additions (possibly of one HashId).     *)

LoggedDiffs ==
    {EmptyDiff}
    \cup {[EmptyDiff EXCEPT !.add = <<Obj(h, v)>>] : h \in HashIds, v \in Payloads}
    \cup {[EmptyDiff EXCEPT !.mod = (h :> Obj(h, v))] : h \in HashIds, v \in Payloads}
    \cup {[EmptyDiff EXCEPT !.del = <<h>>] : h \in HashIds}
    \cup {[EmptyDiff EXCEPT !.add = <<Obj(h, "X"), Obj(g, "Y")>>] : h \in HashIds, g \in HashIds}

ModLogs == {(f :> d) : f \in Files, d \in LoggedDiffs}

SeqsUpTo(S, n) == UNION {[1..k -> S] : k \in 0..n}

InitCons ==
    /\ pc = "loaded"
    /\ mods \in SeqsUpTo(ModLogs, MaxMods)
    /\ c_diffs = <<>>
    /\ no_del = FALSE
    /\ NoDiff /\ NoStock /\ NoRun /\ NoMods /\ NoStatic

ConsolidateDiffs ==
    /\ pc = "loaded"
    /\ c_diffs' = consolidate_diffs(mods)
    /\ pc' = "consolidated"
    /\ UNCHANGED <<mods, no_del, diffVars, stockVars, runVars, modVars, dsVars>>

NextCons == ConsolidateDiffs

SpecCons == InitCons /\ [][NextCons]_vars

----------------------------------------------------------------------------
(* Specification SpecDiff: one mod.  get_map_diff of a baseline and a      *)
(* modified document (unique HashIds, any order) is logged, the log is     *)
(* consolidated and the result is merged into the same baseline.           *)

\* objects link to nothing or to object 1
LinkSets == {{}, {1}}

BaseObjs == {[Obj(h, "X") EXCEPT !.LinksToObj = l] : h \in HashIds, l \in LinkSets}
ModObjs == {[Obj(h, v) EXCEPT !.LinksToObj = l] :
               h \in HashIds, v \in Payloads, l \in LinkSets}

UniqueHashIds(objs) ==
    \A i, j \in DOMAIN objs : objs[i].HashId = objs[j].HashId => i = j

DocsOver(objects) == {d \in SeqsUpTo(objects, MaxHash) : UniqueHashIds(d)}

\* the map file of the mod
DiffFile == <<"A-1", "Dynamic">>

InitDiff ==
    /\ pc = "start"
    /\ base_map \in DocsOver(BaseObjs)
    /\ mod_map \in DocsOver(ModObjs)
    /\ no_del \in BOOLEAN
    /\ link_del \in BOOLEAN
    /\ mods = <<>>
    /\ c_diffs = <<>>
    /\ diffs = EmptyDiff
    /\ new_map = <<>>
    /\ not_deleted = {}
    /\ NoStock /\ NoRun /\ NoMods /\ NoStatic

\* generate_modded_map_log for one map file; the log is what get_all_diffs loads
GetMapDiff ==
    /\ pc = "start"
    /\ diffs' = get_map_diff(base_map, mod_map, no_del, link_del)
    /\ mods' = <<(DiffFile :> diffs')>>
    /\ pc' = "loaded"
    /\ UNCHANGED <<c_diffs, base_map, mod_map, no_del, link_del, new_map, not_deleted>>
    /\ UNCHANGED <<stockVars, runVars, modVars, dsVars>>

\* merge_map of the group of DiffFile, up to the sorted object list
MergeMap ==
    /\ pc = "consolidated"
    /\ Map(DiffFile) \in DOMAIN c_diffs
    /\ new_map' = MergeObjs(base_map, c_diffs[Map(DiffFile)], no_del)
    /\ not_deleted' = MergeReports(base_map, c_diffs[Map(DiffFile)], no_del)
    /\ pc' = "merged"
    /\ UNCHANGED <<mods, c_diffs, base_map, mod_map, no_del, link_del, diffs>>
    /\ UNCHANGED <<stockVars, runVars, modVars, dsVars>>

NextDiff == GetMapDiff \/ ConsolidateDiffs \/ MergeMap

SpecDiff == InitDiff /\ [][NextDiff]_vars

----------------------------------------------------------------------------
(* Specification SpecMerge: merge_map applied to any consolidated diff of  *)
(* one group and any baseline with unique HashIds.  As consolidate_diffs   *)
(* leaves it, the add list holds no HashId twice, every mod entry is keyed *)
(* by the HashId of its record and del is a set.                           *)

StockObjs == {Obj(h, "X") : h \in HashIds}
DiffObjs == {Obj(h, v) : h \in HashIds, v \in Payloads}

ModMaps == UNION {{f \in [K -> DiffObjs] : \A h \in K : f[h].HashId = h} :
                    K \in SUBSET HashIds}

ConsDiffs == {[add |-> a, mod |-> m, del |-> d] :
                 a \in DocsOver(DiffObjs), m \in ModMaps, d \in SUBSET HashIds}

InitMerge ==
    /\ pc = "consolidated"
    /\ base_map \in DocsOver(StockObjs)
    /\ c_diffs \in {(Map(DiffFile) :> ch) : ch \in ConsDiffs}
    /\ no_del \in BOOLEAN
    /\ link_del = FALSE
    /\ mods = <<>>
    /\ mod_map = <<>>
    /\ diffs = EmptyDiff
    /\ new_map = <<>>
    /\ not_deleted = {}
    /\ NoStock /\ NoRun /\ NoMods /\ NoStatic

NextMerge == MergeMap

SpecMerge == InitMerge /\ [][NextMerge]_vars

----------------------------------------------------------------------------
(* Specification SpecStock: get_map_diff of a modified document against    *)
(* the baseline named by a Map key, looked up in any game dump.            *)

GameDumps ==
    {d \in SUBSET Sources :
        /\ (d \cap {"aoc_pack", "aoc_file"} # {}) => "aoc_dir" \in d
        /\ "aoc_pack_entry" \in d => "aoc_pack" \in d
        /\ "title_entry" \in d => "title_pack" \in d}

MarkObjs == {Obj(h, v) : h \in HashIds, v \in {"X"} \cup HardMarkers}

InitStock ==
    /\ pc = "start"
    /\ mod_map \in DocsOver(MarkObjs)
    /\ game \in GameDumps
    /\ force_vanilla = FALSE
    /\ stock_src = "none"
    /\ base_map = <<>>
    /\ no_del \in BOOLEAN
    /\ link_del = FALSE
    /\ mods = <<>>
    /\ c_diffs = <<>>
    /\ diffs = EmptyDiff
    /\ new_map = <<>>
    /\ not_deleted = {}
    /\ NoRun /\ NoMods /\ NoStatic

\* get_map_diff called with a Map as base_map (generate_modded_map_log)
GetMapDiffOfMap ==
    /\ pc = "start"
    /\ force_vanilla' = StockMapFlag(mod_map)
    /\ stock_src' = get_stock_map(game, force_vanilla')
    /\ IF stock_src' = "NotFound"
       THEN /\ pc' = "failed"
            /\ UNCHANGED <<base_map, diffs, mods>>
       ELSE /\ base_map' = StockDoc(stock_src')
            /\ diffs' = get_map_diff(base_map', mod_map, no_del, link_del)
            /\ mods' = <<(DiffFile :> diffs')>>
            /\ pc' = "loaded"
    /\ UNCHANGED <<c_diffs, mod_map, no_del, link_del, new_map, not_deleted, game, runVars, modVars, dsVars>>

NextStock == GetMapDiffOfMap

SpecStock == InitStock /\ [][NextStock]_vars

----------------------------------------------------------------------------
(* Specification Spec: MapMerger.perform_merge.  The main thread resets    *)
(* the master modpack, consolidates the logged diffs and maps merge_map    *)
(* over the groups on a pool of min(cpu_count - 1, groups) processes; each *)
(* task of the pool is one merge_map call (chunks of one task, as for up   *)
(* to four groups per process), stepping through its file writes.  A task  *)
(* may fail where merge_map can raise: loading the baseline and encoding   *)
(* either output.  pool.map re-raises a task's exception once every task   *)
(* has ended.                                                              *)

MaxCpu == 3         \* cpu_count() is 1..MaxCpu

\* the stock map get_stock_map(map_unit) loads for a group
StockMap(m) == IF m[2] = "Dynamic" THEN DlcStock ELSE VanillaStock

\* the diffs the mods log in a run
RunDiffs == {[EmptyDiff EXCEPT !.add = <<DlcObj(3, "Y")>>],
             [EmptyDiff EXCEPT !.mod = (1 :> Obj(1, "Y"))]}
RunLogs == UNION {[F -> RunDiffs] : F \in (SUBSET Files) \ {{}}}

\* (mutant) the output path without the map type
AocOutOfSection(m) == <<"aoc/0010/Map/MainField", m[1], m[1]>>

\* lines 216-218 and 226-227: the output paths below the master modpack
AocOut(m) == <<"aoc/0010/Map/MainField", m[1], m[2]>>
BaseOut(m) == <<"content/Map/MainField", m[1], m[2]>>
\* (mutant) the DLC-tree canonical name without its Aoc/0010 prefix
AocCanonUnprefixed(m) == <<"Map/MainField", m[1], m[2]>>

\* lines 233 and 237: the canonical resource names
AocCanon(m) == <<"Aoc/0010/Map/MainField", m[1], m[2]>>
MainCanon(m) == <<"Map/MainField", m[1], m[2]>>
PackPath == <<"aoc/0010/Pack/AocMainField.pack">>
LogPath == <<"logs/map.log">>

\* line 223: obj['UnitConfigName'].startswith('DLC')
StartsWithDLC(name) == name \in {"DLC_Obj"}

\* (mutant) the base-content variant without the filter
BaseContentUnfiltered(objs) == objs

\* lines 222-223
BaseContent(objs) == SelectSeq(objs, LAMBDA obj : ~StartsWithDLC(obj.UnitConfigName))

\* rstb_calc.calculate_file_size_with_ext(bytes, True, '.mubin'): a function
\* of the serialized object list
calculate_file_size(objs) == Len(objs)

\* lines 412-414: rstb_vals, canonical name -> size
RstbVals(res) ==
    LET pairs == {res[m].aoc : m \in DOMAIN res} \cup {res[m].main : m \in DOMAIN res}
    IN  [c \in {pr[1] : pr \in pairs} |-> (CHOOSE pr \in pairs : pr[1] = c)[2]]

\* line 402
NumThreads == IF cpu_count - 1 < Cardinality(DOMAIN c_diffs)
              THEN cpu_count - 1 ELSE Cardinality(DOMAIN c_diffs)

Running == {m \in DOMAIN wpc : wpc[m] \in {"merged", "aoc_written", "base_written"}}

\* what an earlier run may have left in the master modpack
OldFiles == [p \in {AocOut(Map(f)) : f \in Files} \cup {BaseOut(Map(f)) : f \in Files}
                |-> VanillaStock]
OldLog == [exists |-> TRUE,
           entries |-> [c \in {AocCanon(Map(f)) : f \in Files} \cup
                               {MainCanon(Map(f)) : f \in Files} |-> 1]]
NoLog == [exists |-> FALSE, entries |-> <<>>]

Init ==
    /\ pc = "idle"
    /\ mods \in SeqsUpTo(RunLogs, MaxMods)
    /\ cpu_count \in 1..MaxCpu
    /\ aoc_pack \in {"absent", "empty", "nonempty"}
    /\ \/ files = <<>> /\ map_log = NoLog
       \/ files = OldFiles /\ map_log = OldLog
    /\ c_diffs = <<>>
    /\ no_del = FALSE
    /\ writes = {}
    /\ wpc = <<>> /\ wmap = <<>> /\ results = <<>>
    /\ NoDiff /\ NoStock /\ NoMods /\ NoStatic

\* (mutant) the reset that leaves the old size-table log in place
ResetKeepLog ==
    /\ pc = "idle"
    /\ aoc_pack' = "empty"
    /\ writes' = IF aoc_pack # "empty" THEN writes \cup {PackPath} ELSE writes
    /\ files' = <<>>
    /\ pc' = "loaded"
    /\ UNCHANGED <<mods, c_diffs, no_del, diffVars, stockVars,
                   cpu_count, map_log, wpc, wmap, results, modVars, dsVars>>

\* (mutant) the reset that leaves the merged output trees in place
ResetKeepTrees ==
    /\ pc = "idle"
    /\ aoc_pack' = "empty"
    /\ writes' = IF aoc_pack # "empty" THEN writes \cup {PackPath} ELSE writes
    /\ map_log' = NoLog
    /\ pc' = "loaded"
    /\ UNCHANGED <<mods, c_diffs, no_del, diffVars, stockVars,
                   cpu_count, files, wpc, wmap, results, modVars, dsVars>>

\* lines 378-393: empty the pack placeholder when it is missing or not empty,
\* remove both output trees and the log; get_all_diffs then loads the logs
Reset ==
    /\ pc = "idle"
    /\ aoc_pack' = "empty"
    /\ writes' = IF aoc_pack # "empty" THEN writes \cup {PackPath} ELSE writes
    /\ files' = <<>>
    /\ map_log' = NoLog
    /\ pc' = "loaded"
    /\ UNCHANGED <<mods, c_diffs, no_del, diffVars, stockVars,
                   cpu_count, wpc, wmap, results, modVars, dsVars>>

\* lines 395-397
EarlyExit ==
    /\ pc = "consolidated"
    /\ DOMAIN c_diffs = {}
    /\ pc' = "done"
    /\ UNCHANGED <<mods, c_diffs, no_del, diffVars, stockVars, runVars, modVars, dsVars>>

\* lines 399-409: Pool(processes=num_threads) raises ValueError below 1
StartPool ==
    /\ pc = "consolidated"
    /\ DOMAIN c_diffs # {}
    /\ IF NumThreads < 1
       THEN pc' = "failed" /\ UNCHANGED wpc
       ELSE pc' = "mapping" /\ wpc' = [m \in DOMAIN c_diffs |-> "queued"]
    /\ UNCHANGED <<mods, c_diffs, no_del, diffVars, stockVars,
                   cpu_count, aoc_pack, files, map_log, writes, wmap, results, modVars, dsVars>>

\* merge_map lines 188-214, run by a free process of the pool
TaskMerge(m) ==
    /\ pc = "mapping"
    /\ wpc[m] = "queued"
    /\ Cardinality(Running) < NumThreads
    /\ wmap' = (m :> [Objs |-> MergeObjs(StockMap(m), c_diffs[m], no_del),
                       aoc_bytes |-> <<>>]) @@ wmap
    /\ wpc' = [wpc EXCEPT ![m] = "merged"]
    /\ UNCHANGED <<pc, mods, c_diffs, no_del, diffVars, stockVars,
                   cpu_count, aoc_pack, files, map_log, writes, results, modVars, dsVars>>

\* merge_map lines 216-221
TaskWriteAoc(m) ==
    /\ pc = "mapping"
    /\ wpc[m] = "merged"
    /\ wmap' = [wmap EXCEPT ![m].aoc_bytes = wmap[m].Objs]
    /\ files' = (AocOut(m) :> wmap'[m].aoc_bytes) @@ files
    /\ writes' = writes \cup {AocOut(m)}
    /\ wpc' = [wpc EXCEPT ![m] = "aoc_written"]
    /\ UNCHANGED <<pc, mods, c_diffs, no_del, diffVars, stockVars,
                   cpu_count, aoc_pack, map_log, results, modVars, dsVars>>

\* merge_map lines 222-230
TaskWriteBase(m) ==
    /\ pc = "mapping"
    /\ wpc[m] = "aoc_written"
    /\ wmap' = [wmap EXCEPT ![m].Objs = BaseContent(wmap[m].Objs)]
    /\ files' = (BaseOut(m) :> wmap'[m].Objs) @@ files
    /\ writes' = writes \cup {BaseOut(m)}
    /\ wpc' = [wpc EXCEPT ![m] = "base_written"]
    /\ UNCHANGED <<pc, mods, c_diffs, no_del, diffVars, stockVars,
                   cpu_count, aoc_pack, map_log, results, modVars, dsVars>>

\* lines 231-240: the sizes of aoc_bytes and of base_bytes, the encoding of
\* the object list left in new_map
MergeResult(m, task) ==
    [aoc |-> <<AocCanon(m), calculate_file_size(task.aoc_bytes)>>,
     main |-> <<MainCanon(m), calculate_file_size(task.Objs)>>]

\* merge_map lines 231-240
TaskReturn(m) ==
    /\ pc = "mapping"
    /\ wpc[m] = "base_written"
    /\ results' = (m :> MergeResult(m, wmap[m])) @@ results
    /\ wpc' = [wpc EXCEPT ![m] = "done"]
    /\ UNCHANGED <<pc, mods, c_diffs, no_del, diffVars, stockVars,
                   cpu_count, aoc_pack, files, map_log, writes, wmap, modVars, dsVars>>

\* merge_map raises: get_stock_map finds no baseline (line 190), or byml.Writer
\* cannot encode the full (line 220) or the base-content (line 229) object list
TaskFail(m) ==
    /\ pc = "mapping"
    /\ \/ wpc[m] = "queued" /\ Cardinality(Running) < NumThreads
       \/ wpc[m] \in {"merged", "aoc_written"}
    /\ wpc' = [wpc EXCEPT ![m] = "failed"]
    /\ UNCHANGED <<pc, mods, c_diffs, no_del, diffVars, stockVars,
                   cpu_count, aoc_pack, files, map_log, writes, wmap, results, modVars, dsVars>>

\* lines 406-409: pool.map re-raises the exception of a failed task
PoolFailed ==
    /\ pc = "mapping"
    /\ \A m \in DOMAIN wpc : wpc[m] \in {"done", "failed"}
    /\ \E m \in DOMAIN wpc : wpc[m] = "failed"
    /\ pc' = "failed"
    /\ UNCHANGED <<mods, c_diffs, no_del, diffVars, stockVars, runVars, modVars, dsVars>>

\* (mutant) the log written as soon as one task has returned
WriteLogEarly ==
    /\ pc = "mapping"
    /\ \E m \in DOMAIN wpc : wpc[m] = "done"
    /\ map_log' = [exists |-> TRUE, entries |-> RstbVals(results)]
    /\ writes' = writes \cup {LogPath}
    /\ pc' = "done"
    /\ UNCHANGED <<mods, c_diffs, no_del, diffVars, stockVars,
                   cpu_count, aoc_pack, files, wpc, wmap, results, modVars, dsVars>>

\* lines 410-420: every task returned; rstb_vals is written to logs/map.log
WriteLog ==
    /\ pc = "mapping"
    /\ \A m \in DOMAIN wpc : wpc[m] = "done"
    /\ map_log' = [exists |-> TRUE, entries |-> RstbVals(results)]
    /\ writes' = writes \cup {LogPath}
    /\ pc' = "done"
    /\ UNCHANGED <<mods, c_diffs, no_del, diffVars, stockVars,
                   cpu_count, aoc_pack, files, wpc, wmap, results, modVars, dsVars>>

Next ==
    \/ Reset
    \/ ConsolidateDiffs
    \/ EarlyExit
    \/ StartPool
    \/ \E m \in DOMAIN wpc : TaskMerge(m)
    \/ \E m \in DOMAIN wpc : TaskWriteAoc(m)
    \/ \E m \in DOMAIN wpc : TaskWriteBase(m)
    \/ \E m \in DOMAIN wpc : TaskReturn(m)
    \/ \E m \in DOMAIN wpc : TaskFail(m)
    \/ PoolFailed
    \/ WriteLog

Spec == Init /\ [][Next]_vars

----------------------------------------------------------------------------
(* Specification SpecMods: MapMerger.get_all_diffs over the mod            *)
(* directories of the modpack folder, then consolidate_diffs.  A mod       *)
(* directory has the priority of its info.json, may hold a .disabled       *)
(* marker and may hold a logs/map.log; directory names and priorities are  *)
(* distinct.                                                               *)

Stems == {"Mod", "9999_BCML"}

\* the map logs of the installed mods
InstalledLogs ==
    {(DiffFile :> [EmptyDiff EXCEPT !.add = <<Obj(1, "X")>>]),
     (DiffFile :> [EmptyDiff EXCEPT !.del = <<1>>])}

\* a mod directory; log is <<>> without logs/map.log and <<its content>> with
ModDirs ==
    [priority : 1..MaxMods, stem : Stems, disabled : BOOLEAN,
     log : {<<>>} \cup {<<l>> : l \in InstalledLogs}]

\* the modpack folders: one directory at most per priority and per name
Modpacks ==
    LET byPriority == UNION {[P -> ModDirs] : P \in SUBSET (1..MaxMods)}
        folders == {{f[p] : p \in DOMAIN f} :
                       f \in {g \in byPriority : \A p \in DOMAIN g : g[p].priority = p}}
    IN  {D \in folders :
            \A a, b \in D : (a.stem = "9999_BCML" /\ b.stem = "9999_BCML") => a = b}

\* sorted(..., key=lambda mod: mod.priority)
RECURSIVE SortByPriority(_)
SortByPriority(D) ==
    IF D = {} THEN <<>>
    ELSE LET first == CHOOSE a \in D : \A b \in D : a.priority <= b.priority
         IN  <<first>> \o SortByPriority(D \ {first})

\* util.get_installed_mods: only the directory named 9999_BCML is ever left
\* out, when it holds .disabled and disabled mods are not asked for
get_installed_mods(D, disabled) ==
    SortByPriority({a \in D :
        ~(a.stem = "9999_BCML" /\ (~disabled /\ a.disabled))})

\* Merger.is_mod_logged: the mod holds logs/map.log
is_mod_logged(a) == a.log # <<>>

\* get_mod_diff of a logged mod
get_mod_diff(a) == a.log[1]

\* lines 341-345
get_all_diffs(D) ==
    LET logged == SelectSeq(get_installed_mods(D, FALSE), is_mod_logged)
    IN  [i \in DOMAIN logged |-> get_mod_diff(logged[i])]

InitMods ==
    /\ pc = "start"
    /\ installed \in Modpacks
    /\ mods = <<>>
    /\ c_diffs = <<>>
    /\ no_del = FALSE
    /\ NoDiff /\ NoStock /\ NoRun /\ NoStatic

\* line 394: the argument of consolidate_diffs
GetAllDiffs ==
    /\ pc = "start"
    /\ mods' = get_all_diffs(installed)
    /\ pc' = "loaded"
    /\ UNCHANGED <<c_diffs, no_del, diffVars, stockVars, runVars, modVars, dsVars>>

NextMods == GetAllDiffs \/ ConsolidateDiffs

SpecMods == InitMods /\ [][NextMods]_vars

----------------------------------------------------------------------------
(* Specification SpecStatic: the shrine entrance merge.  Each mod's        *)
(* Static.smubin is diffed against the game's (get_dungeonstatic_diff, at  *)
(* install time); DungeonStaticMerger.perform_merge then consolidates the  *)
(* logged diffs and merges them into the game's file.  Map names are       *)
(* unique within a StartPos list.                                          *)

\* the Map names, in the order the game's file lists them
DungeonOrder == <<"CDungeon000", "CDungeon001">>
Dungeons == Range(DungeonOrder)
Coords == {0, 1}
Dungeon(m, r, t) == [Map |-> m, Rotate |-> r, Translate |-> t, PosName |-> "Entrance_1"]

\* [dungeon['Map'] for dungeon in start_pos]
MapNames(start_pos) == [i \in DOMAIN start_pos |-> start_pos[i].Map]

BaseStatics ==
    {<<>>, <<Dungeon("CDungeon000", 0, 0)>>,
     <<Dungeon("CDungeon000", 0, 0), Dungeon("CDungeon001", 0, 0)>>}
\* a mod's file keeps the game's order of the dungeons it holds
ModStatics ==
    {d \in SeqsUpTo({Dungeon(m, r, t) : m \in Dungeons, r \in Coords, t \in Coords},
                    Cardinality(Dungeons)) :
        \A i, j \in DOMAIN d :
            i < j => Index(DungeonOrder, d[i].Map) < Index(DungeonOrder, d[j].Map)}

\* A dict is the sequence of its items [key, val] in insertion order.
Keys(d) == {d[i].key : i \in DOMAIN d}
Get(d, k) == d[CHOOSE i \in DOMAIN d : d[i].key = k].val
\* d[k] = v: a new key goes last, a known key keeps its place
Set(d, k, v) ==
    IF k \in Keys(d)
    THEN [i \in DOMAIN d |-> IF d[i].key = k THEN [key |-> k, val |-> v] ELSE d[i]]
    ELSE Append(d, [key |-> k, val |-> v])

\* (mutant) the whole record of a changed dungeon is logged
DiffDungeonWhole(diffs_, dungeon, base_dungeon) ==
    IF dungeon.Rotate # base_dungeon.Rotate \/ dungeon.Translate # base_dungeon.Translate
    THEN Set(diffs_, dungeon.Map, dungeon)
    ELSE diffs_

\* lines 267-275: the entry of a dungeon the baseline has
DiffDungeon(diffs_, dungeon, base_dungeon) ==
    LET rotated == IF dungeon.Rotate # base_dungeon.Rotate
                   THEN Set(diffs_, dungeon.Map, [Rotate |-> dungeon.Rotate])
                   ELSE diffs_
        started == IF dungeon.Map \notin Keys(rotated)
                   THEN Set(rotated, dungeon.Map, <<>>)
                   ELSE rotated
    IN  IF dungeon.Translate # base_dungeon.Translate
        THEN Set(started, dungeon.Map,
                 ("Translate" :> dungeon.Translate) @@ Get(started, dungeon.Map))
        ELSE rotated

\* lines 262-277, from dungeon i of mod_pos on
RECURSIVE DiffFrom(_, _, _, _)
DiffFrom(base_pos, mod_pos, i, diffs_) ==
    IF i > Len(mod_pos) THEN diffs_
    ELSE LET dungeon == mod_pos[i]
             base_dungeons == MapNames(base_pos)
         IN  DiffFrom(base_pos, mod_pos, i + 1,
                 IF dungeon.Map \notin Range(base_dungeons)
                 THEN Set(diffs_, dungeon.Map, dungeon)
                 ELSE DiffDungeon(diffs_, dungeon,
                                  base_pos[Index(base_dungeons, dungeon.Map)]))

get_dungeonstatic_diff(base_pos, mod_pos) == DiffFrom(base_pos, mod_pos, 1, <<>>)

\* get_all_diffs: a mod has a dstatic.json only when its diff is not empty
\* (log_diff, lines 444-450)
LoggedStaticDiffs(all) == SelectSeq(all, LAMBDA d : d # <<>>)

\* dict.update: the items of diff are set in turn
RECURSIVE Update(_, _)
Update(all_diffs, diff) ==
    IF diff = <<>> THEN all_diffs
    ELSE Update(Set(all_diffs, Head(diff).key, Head(diff).val), Tail(diff))

\* (mutant) the mappings taken from the last to the first: the first one wins
RECURSIVE UpdateAllReversed(_, _)
UpdateAllReversed(diff_list, all_diffs) ==
    IF diff_list = <<>> THEN all_diffs
    ELSE UpdateAllReversed(SubSeq(diff_list, 1, Len(diff_list) - 1),
                           Update(all_diffs, diff_list[Len(diff_list)]))

\* lines 467-469: all_diffs.update(diff) for each diff in turn
RECURSIVE UpdateAll(_, _)
UpdateAll(diff_list, all_diffs) ==
    IF diff_list = <<>> THEN all_diffs
    ELSE UpdateAll(Tail(diff_list), Update(all_diffs, Head(diff_list)))

\* DungeonStaticMerger.consolidate_diffs, lines 466-472
consolidate_static_diffs(diff_list) == UpdateAll(diff_list, <<>>)

\* lines 297-299: the fields of the diff overwrite those of the dungeon
OverwriteFields(dungeon, diff) ==
    [k \in DOMAIN dungeon \cup DOMAIN diff |-> IF k \in DOMAIN diff THEN diff[k] ELSE dungeon[k]]

\* lines 293-299, from item i of the diffs on; base_dungeons is not refreshed
RECURSIVE MergeFrom(_, _, _, _)
MergeFrom(start_pos, base_dungeons, diff_map, i) ==
    IF i > Len(diff_map) THEN start_pos
    ELSE LET dungeon == diff_map[i].key
             at == Index(base_dungeons, dungeon)
         IN  MergeFrom(IF dungeon \notin Range(base_dungeons)
                       THEN Append(start_pos, diff_map[i].val)
                       ELSE [start_pos EXCEPT
                                ![at] = OverwriteFields(start_pos[at], diff_map[i].val)],
                       base_dungeons, diff_map, i + 1)

\* merge_dungeonstatic lines 280-305: the StartPos written, none for no diffs
merge_dungeonstatic(base_pos, diff_map) ==
    IF diff_map = <<>> THEN NotWritten
    ELSE [written |-> TRUE,
          StartPos |-> MergeFrom(base_pos, MapNames(base_pos), diff_map, 1)]

InitStatic ==
    /\ pc = "start"
    /\ ds_base \in BaseStatics
    /\ ds_files \in SeqsUpTo(ModStatics, MaxMods)
    /\ ds_diffs = <<>>
    /\ ds_all = <<>>
    /\ ds_out = NotWritten
    /\ mods = <<>> /\ c_diffs = <<>> /\ no_del = FALSE
    /\ NoDiff /\ NoStock /\ NoRun /\ NoMods

\* DungeonStaticMerger.generate_diff for the next mod being installed
GenerateStaticDiff ==
    /\ pc = "start"
    /\ Len(ds_diffs) < Len(ds_files)
    /\ ds_diffs' = Append(ds_diffs,
                          get_dungeonstatic_diff(ds_base, ds_files[Len(ds_diffs) + 1]))
    /\ UNCHANGED <<pc, mods, c_diffs, no_del, diffVars, stockVars, runVars, modVars,
                   ds_base, ds_files, ds_all, ds_out>>

\* DungeonStaticMerger.perform_merge, lines 474-476
StaticPerformMerge ==
    /\ pc = "start"
    /\ Len(ds_diffs) = Len(ds_files)
    /\ ds_all' = consolidate_static_diffs(LoggedStaticDiffs(ds_diffs))
    /\ ds_out' = merge_dungeonstatic(ds_base, ds_all')
    /\ pc' = "merged"
    /\ UNCHANGED <<mods, c_diffs, no_del, diffVars, stockVars, runVars, modVars,
                   ds_base, ds_files, ds_diffs>>

NextStatic == GenerateStaticDiff \/ StaticPerformMerge

SpecStatic == InitStatic /\ [][NextStatic]_vars

----------------------------------------------------------------------------
(* Claims about consolidate_diffs (checked under SpecCons) *)

\* the mods (positions in the priority-ordered list) that log a diff for group m
ModsOf(m) == {i \in DOMAIN mods : \E f \in DOMAIN mods[i] : Map(f) = m}
DiffOf(i, m) == mods[i][CHOOSE f \in DOMAIN mods[i] : Map(f) = m]
Groups == {Map(f) : f \in Files}
Adders(m, h) == {i \in ModsOf(m) : \E k \in DOMAIN DiffOf(i, m).add :
                                      DiffOf(i, m).add[k].HashId = h}
Modders(m, h) == {i \in ModsOf(m) : h \in DOMAIN DiffOf(i, m).mod}
Lowest(S) == CHOOSE i \in S : \A j \in S : i <= j
Highest(S) == CHOOSE i \in S : \A j \in S : i >= j
\* positions of the objects with HashId h in an add list
AddAt(adds, h) == {k \in DOMAIN adds : adds[k].HashId = h}
FirstAdded(adds, h) == adds[Lowest(AddAt(adds, h))]

C2_LastWriterWins ==
    pc = "consolidated" =>
        \A m \in Groups, h \in HashIds :
            Modders(m, h) # {} =>
                /\ m \in DOMAIN c_diffs
                /\ h \in DOMAIN c_diffs[m].mod
                /\ c_diffs[m].mod[h] = DiffOf(Highest(Modders(m, h)), m).mod[h]

\* C3 as stated: the consolidated del of a group is the union of the del lists
\* of all the mods that log a diff for the group.
C3_DelIsUnion ==
    pc = "consolidated" =>
        \A m \in Groups :
            ModsOf(m) # {} =>
                /\ m \in DOMAIN c_diffs
                /\ c_diffs[m].del = UNION {Range(DiffOf(i, m).del) : i \in ModsOf(m)}

----------------------------------------------------------------------------
(* Claims about get_map_diff and the round trip (checked under SpecDiff) *)

\* the baseline HashIds that some baseline object links to
LinkedIds == UNION {base_map[i].LinksToObj : i \in DOMAIN base_map}
\* the baseline HashIds the modified document omits
OmittedIds == Range(Hashes(base_map)) \ Range(Hashes(mod_map))

\* C4: with deletions allowed, an omitted baseline HashId that is a link
\* destination of a baseline object is not in del when link_del is off and is
\* in del when link_del is on.
C4_LinkProtection ==
    (pc # "start" /\ ~no_del) =>
        \A h \in OmittedIds \cap LinkedIds :
            /\ ~link_del => h \notin Range(diffs.del)
            /\ link_del => h \in Range(diffs.del)

C4_WitnessProtected ==
    /\ pc = "loaded" /\ ~no_del /\ ~link_del
    /\ OmittedIds \cap LinkedIds # {}
    /\ OmittedIds \ LinkedIds # {}
    /\ Range(diffs.del) = OmittedIds \ LinkedIds

\* the records of a document, order aside
Records(objs) == Range(objs)

\* C5 as stated: with deletions enabled, merging the consolidated single diff
\* into the baseline gives exactly the records of the modified document.
C5_RoundTrip ==
    (pc = "merged" /\ ~no_del) => Records(new_map) = Records(mod_map)

\* C5 amended: the round trip holds with deletions enabled when link_del is on
\* or no omitted baseline object is a link destination of a baseline object.
C5_RoundTripUnprotected ==
    (pc = "merged" /\ ~no_del /\ (link_del \/ OmittedIds \cap LinkedIds = {})) =>
        /\ Records(new_map) = Records(mod_map)
        /\ Len(new_map) = Len(mod_map)

C5_Witness ==
    /\ pc = "merged" /\ ~no_del /\ link_del
    /\ OmittedIds \cap LinkedIds # {}
    /\ diffs.mod # <<>>
    /\ Records(new_map) = Records(mod_map)

----------------------------------------------------------------------------
(* Claims about merge_map (checked under SpecMerge) *)

StrictlyAscending(objs) ==
    \A i, j \in DOMAIN objs : i < j => objs[i].HashId < objs[j].HashId

\* C6 as stated: for any consolidated diff applied to a baseline with unique
\* HashIds the merged object list is strictly ascending by HashId (sorted, no
\* HashId twice), also when a mod entry of a HashId the baseline lacks is moved
\* to the add list.
C6_SortInvariant ==
    pc = "merged" => StrictlyAscending(new_map)

----------------------------------------------------------------------------
(* Claims about the baseline selection of get_map_diff (checked under SpecStock) *)

AnyMarker == \E i \in DOMAIN mod_map : HasMarker(mod_map[i])
DlcAvailable == /\ "aoc_dir" \in game
                /\ \/ {"aoc_pack", "aoc_pack_entry"} \subseteq game
                   \/ "aoc_file" \in game

\* C9 as stated: a hard-mode marker in the modified document makes the diff use
\* the vanilla baseline (get_stock_map called with force_vanilla true); without
\* a marker force_vanilla is false and the DLC baseline is preferred.
C9_MarkerForcesVanilla ==
    pc # "start" =>
        /\ AnyMarker => force_vanilla
        /\ ~AnyMarker => ~force_vanilla

\* C9 amended: a hard-mode marker makes get_map_diff call get_stock_map with
\* force_vanilla false, so that the DLC baseline is used when the dump has it;
\* without a marker force_vanilla is true and the baseline is never a DLC one.
C9_MarkerSelectsDlc ==
    pc # "start" =>
        /\ AnyMarker => (~force_vanilla /\ (DlcAvailable => stock_src \in DlcSources))
        /\ ~AnyMarker => (force_vanilla /\ stock_src \notin DlcSources)

C9_Witness ==
    /\ pc = "loaded"
    /\ AnyMarker
    /\ {"update_file", "game_file"} \subseteq game
    /\ stock_src = "aoc_pack_entry"
    /\ base_map = DlcStock

----------------------------------------------------------------------------
(* Claims about MapMerger.perform_merge (checked under Spec) *)

MapUnits == {Map(f) : f \in Files}
Expected(m) == MergeObjs(StockMap(m), c_diffs[m], no_del)
Logged(canon) == map_log.exists /\ canon \in DOMAIN map_log.entries

C8_ParallelIndependence ==
    \A m \in DOMAIN wpc :
        /\ wpc[m] = "merged" => wmap[m].Objs = Expected(m)
        /\ AocOut(m) \in DOMAIN files => files[AocOut(m)] = Expected(m)
        /\ BaseOut(m) \in DOMAIN files => files[BaseOut(m)] = BaseContent(Expected(m))
        /\ m \in DOMAIN results =>
              results[m] = [aoc |-> <<AocCanon(m), calculate_file_size(Expected(m))>>,
                            main |-> <<MainCanon(m),
                                       calculate_file_size(BaseContent(Expected(m)))>>]
        /\ wpc[m] = "done" =>
              {AocOut(m), BaseOut(m)} \subseteq DOMAIN files /\ m \in DOMAIN results

C8_Witness ==
    /\ pc = "mapping"
    /\ DOMAIN wpc = MapUnits
    /\ \A m \in MapUnits : wpc[m] = "aoc_written"
    /\ \E m, n \in MapUnits : files[AocOut(m)] # files[AocOut(n)]

\* C10 as stated: once perform_merge has ended, normally or after the failure
\* of a merge_map task at any step, every group has either both output files
\* and both of its paths in the size-table log, or no output file and no path
\* in the log.
C10_OutputAtomicity ==
    pc \in {"done", "failed"} =>
        \A m \in MapUnits :
            \/ /\ AocOut(m) \in DOMAIN files /\ BaseOut(m) \in DOMAIN files
               /\ Logged(AocCanon(m)) /\ Logged(MainCanon(m))
            \/ /\ AocOut(m) \notin DOMAIN files /\ BaseOut(m) \notin DOMAIN files
               /\ ~Logged(AocCanon(m)) /\ ~Logged(MainCanon(m))

----------------------------------------------------------------------------
(* Claims about the three lists of get_map_diff (checked under SpecDiff) *)

\* the object of a document with a given HashId (the documents have unique ids)
ObjOf(objs, h) == objs[CHOOSE i \in DOMAIN objs : objs[i].HashId = h]
\* the position of a HashId in a document
PosOf(objs, h) == CHOOSE i \in DOMAIN objs : objs[i].HashId = h
BaseIds == Range(Hashes(base_map))
ModIds == Range(Hashes(mod_map))

\* C11: add holds exactly the modified-document objects whose HashId the
\* baseline lacks, once each and in the order of the modified document; mod maps
\* exactly the HashIds of both documents whose records differ to the modified
\* record; an object equal to its baseline record is in neither.
C11_AddModClassification ==
    pc # "start" =>
        /\ Range(diffs.add) = {ObjOf(mod_map, h) : h \in ModIds \ BaseIds}
        /\ Len(diffs.add) = Cardinality(ModIds \ BaseIds)
        /\ \A i, j \in DOMAIN diffs.add :
              i < j => PosOf(mod_map, diffs.add[i].HashId) < PosOf(mod_map, diffs.add[j].HashId)
        /\ DOMAIN diffs.mod =
              {h \in ModIds \cap BaseIds : ObjOf(mod_map, h) # ObjOf(base_map, h)}
        /\ \A h \in DOMAIN diffs.mod : diffs.mod[h] = ObjOf(mod_map, h)
        /\ \A h \in ModIds \cap BaseIds :
              ObjOf(mod_map, h) = ObjOf(base_map, h) =>
                  /\ h \notin DOMAIN diffs.mod
                  /\ ObjOf(mod_map, h) \notin Range(diffs.add)

C11_Witness ==
    /\ pc = "loaded"
    /\ Len(diffs.add) = 1
    /\ \E h \in ModIds \cap BaseIds : ObjOf(mod_map, h) = ObjOf(base_map, h)
    /\ diffs.mod = <<>>

\* C12: del holds exactly the baseline HashIds the modified document omits,
\* less the link destinations of baseline objects when link_del is off; with
\* no_del on del is empty, whatever link_del is.
C12_DelList ==
    pc # "start" =>
        /\ no_del => diffs.del = <<>>
        /\ ~no_del =>
              /\ Range(diffs.del) = OmittedIds \ (IF link_del THEN {} ELSE LinkedIds)
              /\ Len(diffs.del) = Cardinality(Range(diffs.del))

C12_Witness ==
    /\ pc = "loaded"
    /\ no_del /\ link_del
    /\ OmittedIds # {}
    /\ diffs.del = <<>>

----------------------------------------------------------------------------
(* Claims about the passes of merge_map (checked under SpecMerge) *)

Changes == c_diffs[Map(DiffFile)]
\* the objects of the merged list with a given HashId
WithId(objs, h) == {i \in DOMAIN objs : objs[i].HashId = h}
Deleted(h) == ~no_del /\ h \in Changes.del /\ h \in BaseIds

\* C13: a mod entry of a baseline HashId replaces the baseline object (the
\* merged list then holds the entry's record as its one object of that HashId,
\* unless the HashId is deleted); a mod entry of a HashId the baseline lacks is
\* kept as an addition, so the merged list holds its record.
C13_ModStep ==
    pc = "merged" =>
        \A h \in DOMAIN Changes.mod :
            /\ (h \in BaseIds /\ ~Deleted(h)) =>
                  /\ Cardinality(WithId(new_map, h)) = 1
                  /\ ObjOf(new_map, h) = Changes.mod[h]
            /\ h \notin BaseIds => Changes.mod[h] \in Range(new_map)

C13_Witness ==
    /\ pc = "merged" /\ ~no_del
    /\ \E h \in DOMAIN Changes.mod :
          /\ h \notin BaseIds /\ h \in Changes.del
          /\ Changes.mod[h] \in Range(new_map)
    /\ \E h \in DOMAIN Changes.mod :
          /\ h \in BaseIds
          /\ Changes.mod[h] # ObjOf(base_map, h)
          /\ Changes.mod[h] \in Range(new_map)

\* C14 as stated: an added object whose HashId the baseline already has is
\* applied as a modification: the merged list holds exactly one object of that
\* HashId and it is the added record.
C14_AddTreatedAsMod ==
    pc = "merged" =>
        \A i \in DOMAIN Changes.add :
            Changes.add[i].HashId \in BaseIds =>
                /\ Cardinality(WithId(new_map, Changes.add[i].HashId)) = 1
                /\ ObjOf(new_map, Changes.add[i].HashId) = Changes.add[i]

\* C14 amended: an added object whose HashId the baseline already has is
\* neither appended nor applied: the merged list holds no object of that HashId
\* when the HashId is deleted, and otherwise exactly one, which is the mod
\* entry's record when the mod map has the HashId and the baseline object when
\* it has not.
C14_AddOfBaselineIdDropped ==
    pc = "merged" =>
        \A i \in DOMAIN Changes.add :
            LET h == Changes.add[i].HashId
            IN  h \in BaseIds =>
                  IF Deleted(h) THEN WithId(new_map, h) = {}
                  ELSE /\ Cardinality(WithId(new_map, h)) = 1
                       /\ ObjOf(new_map, h) = IF h \in DOMAIN Changes.mod
                                               THEN Changes.mod[h]
                                               ELSE ObjOf(base_map, h)

C14_Witness ==
    /\ pc = "merged"
    /\ \E i \in DOMAIN Changes.add :
          LET h == Changes.add[i].HashId
          IN  /\ h \in BaseIds /\ ~Deleted(h) /\ h \notin DOMAIN Changes.mod
              /\ Changes.add[i] # ObjOf(base_map, h)
              /\ ObjOf(new_map, h) = ObjOf(base_map, h)

\* the deletions merge_map carries out
Dels == IF no_del THEN {} ELSE Changes.del \cap BaseIds
\* the records the diff asks for, a deletion of a HashId the baseline lacks
\* counting for nothing
AppliedRecords ==
    {IF h \in DOMAIN Changes.mod THEN Changes.mod[h] ELSE ObjOf(base_map, h) :
        h \in BaseIds \ Dels}
    \cup {Changes.add[i] : i \in {j \in DOMAIN Changes.add : Changes.add[j].HashId \notin BaseIds}}
    \cup {Changes.mod[h] : h \in DOMAIN Changes.mod \ BaseIds}

\* C15 as stated: a deletion of a HashId that is not in the working baseline is
\* reported and skipped, and the rest of the diff is applied.
C15_AbsentDeletionReported ==
    (pc = "merged" /\ ~no_del) =>
        /\ Changes.del \ BaseIds \subseteq not_deleted
        /\ Range(new_map) = AppliedRecords

\* C15 amended: a deletion of a HashId that is not in the baseline is skipped
\* without any report and without an error; merge_map reports no deletion at
\* all, and every modification, every deletion of a baseline HashId and every
\* addition of the diff is applied.
C15_AbsentDeletionSkippedSilently ==
    pc = "merged" =>
        /\ not_deleted = {}
        /\ Range(new_map) = AppliedRecords
        /\ \A h \in Dels : WithId(new_map, h) = {}

C15_Witness ==
    /\ pc = "merged" /\ ~no_del
    /\ Changes.del \ BaseIds # {}
    /\ Changes.del \cap BaseIds # {}
    /\ Changes.add # <<>>
    /\ new_map = Changes.add
    /\ not_deleted = {}

----------------------------------------------------------------------------
(* Claims about the pool of MapMerger.perform_merge (checked under Spec) *)

NumGroups == Cardinality(DOMAIN c_diffs)
Min(a, b) == IF a < b THEN a ELSE b
Max(a, b) == IF a > b THEN a ELSE b
PoolStage == pc \in {"mapping", "done", "failed"} /\ NumGroups >= 1

\* C16 as stated: for every cpu_count >= 1 and every number of groups >= 1 the
\* pool is created, with max(1, min(cpu_count - 1, groups)) workers: at least
\* one and no more than there are groups.
C16_WorkerCount ==
    PoolStage =>
        /\ NumThreads = Max(1, Min(cpu_count - 1, NumGroups))
        /\ DOMAIN wpc = DOMAIN c_diffs

\* C17: after the reset the size-table log exists only once every merge_map
\* task has returned, never while a task is queued or running, and it then
\* holds the two entries of every group of the consolidated diffs, with the
\* sizes the tasks returned.
C17_FullBarrier ==
    (pc # "idle" /\ map_log.exists) =>
        /\ pc = "done"
        /\ DOMAIN wpc = DOMAIN c_diffs
        /\ \A m \in DOMAIN wpc : wpc[m] = "done"
        /\ DOMAIN map_log.entries =
              {AocCanon(m) : m \in DOMAIN c_diffs} \cup {MainCanon(m) : m \in DOMAIN c_diffs}
        /\ \A m \in DOMAIN c_diffs :
              /\ map_log.entries[AocCanon(m)] = results[m].aoc[2]
              /\ map_log.entries[MainCanon(m)] = results[m].main[2]

C17_Witness ==
    /\ pc = "done"
    /\ map_log.exists
    /\ NumGroups = 2
    /\ cpu_count = 2
    /\ Cardinality(DOMAIN map_log.entries) = 4

\* C18 as stated: when the merge_map task of one group fails, the other groups
\* proceed, and at the end of the run the outputs of every group whose task
\* returned are written and are entries of the size-table log.
C18_FailureIsolation ==
    (pc = "failed" /\ \E m \in DOMAIN wpc : wpc[m] = "failed") =>
        \A m \in DOMAIN wpc :
            wpc[m] = "done" =>
                /\ {AocOut(m), BaseOut(m)} \subseteq DOMAIN files
                /\ Logged(AocCanon(m)) /\ Logged(MainCanon(m))

IsDlc(obj) == obj.UnitConfigName \in {"DLC_Obj"}

\* C20: the object list written to a group's base-content file is the list of
\* its DLC-tree file without the objects whose UnitConfigName begins with
\* 'DLC', in the same ascending HashId order; the DLC-tree file holds every
\* merged object, the DLC ones included.
C20_BaseContentVariant ==
    \A m \in DOMAIN wpc :
        /\ AocOut(m) \in DOMAIN files =>
              /\ Range(files[AocOut(m)]) = Range(Expected(m))
              /\ Len(files[AocOut(m)]) = Len(Expected(m))
        /\ BaseOut(m) \in DOMAIN files =>
              /\ AocOut(m) \in DOMAIN files
              /\ Range(files[BaseOut(m)]) = {o \in Range(files[AocOut(m)]) : ~IsDlc(o)}
              /\ Len(files[BaseOut(m)]) =
                    Cardinality({i \in DOMAIN files[AocOut(m)] : ~IsDlc(files[AocOut(m)][i])})
              /\ StrictlyAscending(files[AocOut(m)]) /\ StrictlyAscending(files[BaseOut(m)])

C20_Witness ==
    /\ pc = "done"
    /\ \E m \in DOMAIN wpc :
          /\ DlcObj(2, "X") \in Range(files[AocOut(m)])
          /\ DlcObj(3, "Y") \in Range(files[AocOut(m)])
          /\ files[BaseOut(m)] = <<Obj(1, "X")>>

----------------------------------------------------------------------------
(* Claims about the mods that contribute (checked under SpecMods) *)

\* the installed mods without a .disabled marker that hold a map log
EnabledLogged == {a \in installed : ~a.disabled /\ a.log # <<>>}
\* their logs in ascending priority order
EnabledLogs ==
    CHOOSE s \in [1..Cardinality(EnabledLogged) -> InstalledLogs] :
        \E f \in [1..Cardinality(EnabledLogged) -> EnabledLogged] :
            /\ \A i, j \in DOMAIN f : i < j => f[i].priority < f[j].priority
            /\ \A i \in DOMAIN f : s[i] = f[i].log[1]

\* C19 as stated: the diffs that are consolidated are the logs of the installed
\* mods that are not disabled and hold a map log, in ascending priority order,
\* and the consolidated diff is that of those logs alone.
C19_OnlyEnabledMods ==
    /\ pc \in {"loaded", "consolidated"} => mods = EnabledLogs
    /\ pc = "consolidated" => c_diffs = consolidate_diffs(EnabledLogs)

----------------------------------------------------------------------------
(* Claims about the shrine entrance merge (checked under SpecStatic) *)

BaseNames == Range(MapNames(ds_base))
BaseDungeon(m) == ds_base[CHOOSE i \in DOMAIN ds_base : ds_base[i].Map = m]
Differing(dungeon) ==
    {k \in {"Rotate", "Translate"} : dungeon[k] # BaseDungeon(dungeon.Map)[k]}

\* C21: in the diff of a mod's Static file, a dungeon of a Map name the
\* baseline has is logged with exactly its fields among Rotate and Translate
\* that differ from the baseline, and not at all when both are equal; a dungeon
\* of a Map name the baseline lacks is logged with its whole record; nothing
\* else is logged.
C21_EntranceDiff ==
    \A i \in DOMAIN ds_diffs :
        /\ Keys(ds_diffs[i]) \subseteq Range(MapNames(ds_files[i]))
        /\ Len(ds_diffs[i]) = Cardinality(Keys(ds_diffs[i]))
        /\ \A j \in DOMAIN ds_files[i] :
              LET dungeon == ds_files[i][j]
              IN  IF dungeon.Map \notin BaseNames
                  THEN /\ dungeon.Map \in Keys(ds_diffs[i])
                       /\ Get(ds_diffs[i], dungeon.Map) = dungeon
                  ELSE IF Differing(dungeon) = {}
                  THEN dungeon.Map \notin Keys(ds_diffs[i])
                  ELSE /\ dungeon.Map \in Keys(ds_diffs[i])
                       /\ DOMAIN Get(ds_diffs[i], dungeon.Map) = Differing(dungeon)
                       /\ \A k \in Differing(dungeon) :
                             Get(ds_diffs[i], dungeon.Map)[k] = dungeon[k]

C21_Witness ==
    \E i \in DOMAIN ds_diffs :
        /\ Len(ds_files[i]) = 2
        /\ \E m \in Keys(ds_diffs[i]) :
              m \in BaseNames /\ DOMAIN Get(ds_diffs[i], m) = {"Translate"}
        /\ \E m \in Keys(ds_diffs[i]) : m \notin BaseNames

\* the last logged diff that holds a Map name
LastWith(m) ==
    CHOOSE i \in DOMAIN ds_diffs :
        /\ m \in Keys(ds_diffs[i])
        /\ \A j \in DOMAIN ds_diffs : m \in Keys(ds_diffs[j]) => j <= i

\* C22: the consolidated mapping has the Map names of all the diffs and gives
\* each the entry of the last diff that holds it; the merged StartPos keeps the
\* baseline dungeons in place, each with only the fields of its entry
\* overwritten, followed by the entries of the Map names the baseline lacks.
C22_EntranceConsolidateApply ==
    pc = "merged" =>
        /\ Keys(ds_all) = UNION {Keys(ds_diffs[i]) : i \in DOMAIN ds_diffs}
        /\ Len(ds_all) = Cardinality(Keys(ds_all))
        /\ \A m \in Keys(ds_all) : Get(ds_all, m) = Get(ds_diffs[LastWith(m)], m)
        /\ ds_out.written = (ds_all # <<>>)
        /\ ds_out.written =>
              /\ Len(ds_out.StartPos) = Len(ds_base) + Cardinality(Keys(ds_all) \ BaseNames)
              /\ \A i \in DOMAIN ds_base :
                    \A k \in DOMAIN ds_base[i] :
                        ds_out.StartPos[i][k] =
                            IF /\ ds_base[i].Map \in Keys(ds_all)
                               /\ k \in DOMAIN Get(ds_all, ds_base[i].Map)
                            THEN Get(ds_all, ds_base[i].Map)[k]
                            ELSE ds_base[i][k]
              /\ \A m \in Keys(ds_all) \ BaseNames :
                    \E i \in (Len(ds_base) + 1)..Len(ds_out.StartPos) :
                        ds_out.StartPos[i] = Get(ds_all, m)

C22_Witness ==
    /\ pc = "merged"
    /\ Len(ds_diffs) = 2
    /\ \E m \in Keys(ds_diffs[1]) \cap Keys(ds_diffs[2]) :
          /\ m \in BaseNames
          /\ DOMAIN Get(ds_diffs[1], m) = {"Rotate", "Translate"}
          /\ DOMAIN Get(ds_diffs[2], m) = {"Rotate"}
          /\ BaseDungeon(m).Translate = 0
          /\ \E i \in DOMAIN ds_out.StartPos :
                /\ ds_out.StartPos[i].Map = m
                /\ ds_out.StartPos[i].Translate = 0
    /\ Len(ds_out.StartPos) > Len(ds_base)

----------------------------------------------------------------------------
(* The frame of merge_map (checked under SpecMerge) *)

----------------------------------------------------------------------------
(* Claims about the size table and the stages of a run (checked under Spec) *)

\* C24: after a run over n >= 1 groups that ends without error the size-table
\* log has exactly 2n entries, the DLC-tree and the base-content canonical
\* path of every group; the two paths of a group differ and no two groups
\* share a path.
C24_SizeTableComplete ==
    (pc = "done" /\ NumGroups >= 1) =>
        /\ map_log.exists
        /\ Cardinality(DOMAIN map_log.entries) = 2 * NumGroups
        /\ \A m \in DOMAIN c_diffs :
              /\ {AocCanon(m), MainCanon(m)} \subseteq DOMAIN map_log.entries
              /\ AocCanon(m) # MainCanon(m)
              /\ \A n \in DOMAIN c_diffs :
                    m # n => {AocCanon(m), MainCanon(m)} \cap {AocCanon(n), MainCanon(n)} = {}

C24_Witness ==
    /\ pc = "done"
    /\ cpu_count = 3
    /\ NumGroups = 2
    /\ Cardinality(DOMAIN map_log.entries) = 4
    /\ \E c \in DOMAIN map_log.entries : map_log.entries[c] = 3

\* C25: once the reset is done, and so after every run however it ends, the
\* DLC archive placeholder is empty, every merged map file was written by this
\* run, and a size-table log exists only as written by this run at its end,
\* after the merging stage.
C25_StageOrdering ==
    pc # "idle" =>
        /\ aoc_pack = "empty"
        /\ DOMAIN files \subseteq writes
        /\ (DOMAIN files # {}) => pc \in {"mapping", "done", "failed"}
        /\ map_log.exists => (pc = "done" /\ LogPath \in writes /\ NumGroups >= 1)
        /\ pc \in {"loaded", "consolidated"} => (files = <<>> /\ map_log = NoLog)

C25_Witness ==
    /\ pc = "failed"
    /\ NumGroups = 2
    /\ Cardinality(DOMAIN files) = 3
    /\ DOMAIN files \subseteq writes
    /\ ~map_log.exists

----------------------------------------------------------------------------
(* The baseline lookup of get_stock_map (checked under SpecStock) *)

\* the sources get_stock_map may take the map file from, in the order tried
Candidates ==
    IF force_vanilla \/ "aoc_dir" \notin game
    THEN <<"update_file", "game_file", "title_entry">>
    ELSE <<"aoc_pack_entry", "aoc_file", "update_file", "game_file", "title_entry">>
Holding == {i \in DOMAIN Candidates : Candidates[i] \in game}

\* C26: the baseline comes from the first source, in the order of the mode
\* (forced vanilla or DLC directory missing: update, base game, title pack;
\* otherwise DLC pack, DLC file, update, base game, title pack), that holds the
\* map file; the not-found error is raised exactly when none holds it, and no
\* document is returned then.
C26_BaselineLookup ==
    pc # "start" =>
        IF Holding = {}
        THEN stock_src = "NotFound" /\ pc = "failed" /\ base_map = <<>>
        ELSE /\ stock_src = Candidates[CHOOSE i \in Holding : \A j \in Holding : i <= j]
             /\ pc = "loaded"
             /\ base_map = StockDoc(stock_src)

C26_Witness ==
    /\ pc = "loaded"
    /\ ~force_vanilla
    /\ "aoc_dir" \in game /\ "aoc_pack" \in game
    /\ game \cap DlcSources = {}
    /\ {"update_file", "game_file", "title_entry"} \subseteq game
    /\ stock_src = "update_file"

----------------------------------------------------------------------------
(* Well-formedness of the diff of get_map_diff (checked under SpecDiff) *)

AddIds == {diffs.add[i].HashId : i \in DOMAIN diffs.add}
ModKeys == DOMAIN diffs.mod
DelIds == Range(diffs.del)

\* C27: in a diff of documents with unique HashIds the HashIds of add, the keys
\* of mod and the members of del are pairwise disjoint; del and the keys of mod
\* are baseline HashIds and add holds none; add and del hold no HashId twice.
C27_DiffWellFormed ==
    pc # "start" =>
        /\ AddIds \cap ModKeys = {}
        /\ AddIds \cap DelIds = {}
        /\ ModKeys \cap DelIds = {}
        /\ DelIds \cup ModKeys \subseteq BaseIds
        /\ AddIds \cap BaseIds = {}
        /\ Len(diffs.add) = Cardinality(AddIds)
        /\ Len(diffs.del) = Cardinality(DelIds)

C27_Witness ==
    /\ pc = "loaded"
    /\ Len(diffs.add) = 1
    /\ Len(diffs.del) + Cardinality(ModKeys) = 1

====
